---- MODULE Spec2Model ----
(***************************************************************************)
(* A model of src/src/trpc-client.ts: the rate-limited fetch queue         *)
(* (createRateLimitedFetch) and the auto-pagination generator              *)
(* (autoPaginate, parseCursorDate).                                        *)
(*                                                                         *)
(* Time is Date.now() in milliseconds.  The clock is monotonic and a timer *)
(* set with setTimeout(cb, d) at time t fires at some time >= t + d (the   *)
(* contract of setTimeout); when it fires after that is the scheduler's    *)
(* choice.  All code between two suspension points runs atomically (one    *)
(* event-loop job), so each action below is one such job.                  *)
(***************************************************************************)
EXTENDS Integers, Sequences, FiniteSets, TLC

\* ------------------------------------------------------------------ bounds

\* Number of calls submitted to the queue in one behaviour of Spec.
MaxCalls == 3

\* Number of calls submitted to the queue in one behaviour of CeilSpec.
CeilCalls == 8

\* How long (ms) the clock keeps ticking after the spacing has elapsed since
\* the last dispatch.  Beyond that, more idle time changes no decision of the
\* queue (elapsed >= delayMs either way).
MaxIdle == 1

\* Largest maxPages option a caller of PageSpec passes.
MaxPagesOpt == 2

\* Number of responses the server gives to one pagination session.
MaxServed == 3

\* Number of next()/return() requests the consumer of a session makes.
MaxRequests == 4

\* Date.now() when the queue is created.  The real value is about 1.7e12; all
\* that matters is Epoch >= delayMs, so that the first call never waits.
Epoch == 100000

\* Longest cursor, in tokens, parseCursorDate is applied to in ParseSpec.
MaxCursorLen == 3

\* Calls one client submits in ClientSpec and KeySpec.
MaxWireCalls == 2

\* ------------------------------------------------------------------ helpers

Max(a, b) == IF a >= b THEN a ELSE b

RemoveAt(s, i) == SubSeq(s, 1, i - 1) \o SubSeq(s, i + 1, Len(s))

\* ------------------------------------------------------------------ queue

\* 60000 in `60000 / rateLimit`: milliseconds per minute.
MsPerMinute == 60000

\* Rates (calls per minute) the queue of Spec is created with; they give the
\* spacings 3 ms, 2 ms and (above 60000) the 1 ms floor.
Rates == {20000, 30000, 120000}

\* What a caller passes to the rate-limited fetch (the request).
ReqArgs == {"reqA", "reqB"}

\* How the wrapped fetch's promise settles: fulfilled with a Response (of any
\* HTTP status) or rejected with an error.
TransportOutcomes ==
    { [state |-> "fulfilled", value |-> "response1"],
      [state |-> "rejected",  value |-> "error1"] }

Pending == [state |-> "pending", value |-> "none"]

VARIABLES
    rateLimit,   \* the rateLimit argument of createRateLimitedFetch
    queue,       \* QueueItem[]: <<[id, args]>>, id stands for the resolve/reject pair
    running,     \* the running flag
    lastTime,    \* Date.now() of the last dispatch, 0 before the first
    now,         \* the clock, Date.now()
    timers,      \* pending setTimeout callbacks: <<[kind, due]>>
    inflight,    \* transport calls whose promise chain has not run to its end
    promise,     \* promise[i]: the promise returned to the caller of call i
    settles,     \* settles[i]: how often resolve/reject of call i was invoked
    submitted,   \* log of submissions, in order: <<[args, waiting]>>
    outcomes,    \* log of the transport's settlements: {[n, outcome]}
    started,     \* log of transport invocations: <<[id, args, at]>>
    crashed      \* ids of the calls whose transport invocation threw synchronously

VARIABLES
    arg,           \* log: the argument the operation was invoked with, [given, obj]
    session,       \* "none", "paginated" or "single": what the dispatcher returned
    input,         \* the input handed to autoPaginate (the cleaned input)
    maxPages,      \* options.maxPages
    cursorEnd,     \* options.cursorEnd
    currentCursor, \* local of autoPaginate
    pageCount,     \* local of autoPaginate
    response,      \* local of autoPaginate: the response of the page just yielded
    genPc,         \* where the generator stands: start, awaiting, yield, done
    reqs,          \* the generator's queue of next()/return() requests
    results,       \* log: what each settled request of the consumer got
    calls,         \* log: the inputs of the client.query calls made
    served         \* log: how the server answered each call

VARIABLES
    parseArg,      \* the argument of a call of parseCursorDate
    parseResult    \* what that call returned, NotCalled before it

cvars == <<parseArg, parseResult>>

VARIABLES
    options,           \* the options createAPIClient was called with, NoClient before
    appliedRateLimit,  \* the rate handed to createRateLimitedFetch
    wireIn,            \* log: the fetch calls made on postQueryFetch, <<[input, init]>>
    postOut,           \* log: the calls postQueryFetch made on its f
    wireLog,           \* log, in order: batch events given to logFn and calls of baseFetch
    wireResult         \* what the caller of postQueryFetch got

wvars == <<options, appliedRateLimit, wireIn, postOut, wireLog, wireResult>>

pvars == <<arg, session, input, maxPages, cursorEnd, currentCursor, pageCount, response,
           genPc, reqs, results, calls, served>>

qvars == <<rateLimit, queue, running, lastTime, now, timers, inflight, promise,
           settles, submitted, outcomes, started, crashed>>

\* What the actions of the queue, and those of a session, leave alone.
nonQueueVars == <<pvars, cvars, wvars>>
nonPageVars == <<qvars, cvars, wvars>>
nonWireVars == <<qvars, pvars, cvars>>

\* const delayMs = Math.max(1, Math.floor(60000 / rateLimit));
delayMs(r) == Max(1, MsPerMinute \div r)

\* const wait = Math.max(0, delayMs - elapsed), elapsed = now - lastTime
WaitNoSpacing(n, last, d) == 0
WaitFull(n, last, d) == d
Wait(n, last, d) == Max(0, d - (n - last))

\* `if (!running) runNext()` in the returned function
ShouldStartAlways(r) == TRUE
ShouldStart(r) == ~r

\* const item = queue.shift()
ShiftLast(q) == [item |-> q[Len(q)], rest |-> SubSeq(q, 1, Len(q) - 1)]
ShiftPeek(q) == [item |-> Head(q), rest |-> q]
Shift(q) == [item |-> Head(q), rest |-> Tail(q)]

\* `if (queue.length > 0)` in the finally callback
MoreNever(q) == FALSE
More(q) == Len(q) > 0

\* .then(item.resolve).catch(item.reject): the popped item's own promise is
\* settled with the outcome of the transport call made for it.
DeliverToFirst(c, o, p) == [p EXCEPT ![1] = o]
Deliver(c, o, p) == [p EXCEPT ![c.id] = IF p[c.id] = Pending THEN o ELSE p[c.id]]

\* Date.now(): the clock's reading
DateNowZero(clock) == 0
DateNow(clock) == clock

\* Lines 120-132: pop the head, stamp lastTime, invoke the transport.
\* thr: the transport throws synchronously instead of returning a promise; the
\* throw ends the async runNext, nothing is attached to the popped item.
\* With an empty queue shift() gives undefined and `item.args` throws after
\* lastTime was stamped.
Dispatch(q, thr) ==
    IF Len(q) = 0
    THEN /\ queue' = q
         /\ lastTime' = DateNow(now)
         /\ UNCHANGED <<started, inflight, crashed>>
    ELSE LET sh == Shift(q)
             item == sh.item
         IN /\ queue' = sh.rest
            /\ lastTime' = DateNow(now)
            /\ started' = Append(started, [id |-> item.id, args |-> item.args, at |-> now])
            /\ IF thr
               THEN /\ crashed' = crashed \cup {item.id}
                    /\ inflight' = inflight
               ELSE /\ inflight' = inflight \cup
                          {[n |-> Len(started) + 1, id |-> item.id,
                            args |-> item.args, phase |-> "pending"]}
                    /\ crashed' = crashed

\* Lines 109-119: runNext up to its first suspension point, run on queue q with
\* pending timers tm.
RunNext(q, tm, thr) ==
    IF Len(q) = 0
    THEN /\ running' = FALSE
         /\ queue' = q
         /\ timers' = tm
         /\ UNCHANGED <<lastTime, started, inflight, crashed>>
    ELSE /\ running' = TRUE
         /\ LET wait == Wait(now, lastTime, delayMs(rateLimit))
            IN IF wait > 0
               THEN /\ timers' = Append(tm, [kind |-> "wait", due |-> now + wait])
                    /\ queue' = q
                    /\ UNCHANGED <<lastTime, started, inflight, crashed>>
               ELSE /\ timers' = tm
                    /\ Dispatch(q, thr)

\* Lines 135-139: the function returned by createRateLimitedFetch.
\* max bounds the number of submissions of one behaviour.
Submit(a, thr, max) ==
    /\ Len(submitted) < max
    /\ submitted' = Append(submitted,
           [args |-> a, waiting |-> \E i \in 1..Len(timers) : timers[i].kind = "wait"])
    /\ promise' = Append(promise, Pending)
    /\ settles' = Append(settles, 0)
    /\ LET q == Append(queue, [id |-> Len(submitted) + 1, args |-> a])
       IN IF ShouldStart(running)
          THEN RunNext(q, timers, thr)
          ELSE /\ queue' = q
               /\ UNCHANGED <<running, lastTime, timers, started, inflight, crashed>>
    /\ UNCHANGED <<rateLimit, now, outcomes>>
    /\ UNCHANGED <<pvars, cvars>>

\* The timer of line 118 expires: runNext resumes after its await.
WaitDone(i, thr) ==
    /\ i \in 1..Len(timers)
    /\ timers[i].kind = "wait"
    /\ timers[i].due <= now
    /\ timers' = RemoveAt(timers, i)
    /\ Dispatch(queue, thr)
    /\ UNCHANGED <<rateLimit, running, now, promise, settles, submitted, outcomes>>
    /\ UNCHANGED <<pvars, cvars>>

\* The timer of line 128 expires: setTimeout(runNext, 0).
NextStep(i, thr) ==
    /\ i \in 1..Len(timers)
    /\ timers[i].kind = "next"
    /\ timers[i].due <= now
    /\ RunNext(queue, RemoveAt(timers, i), thr)
    /\ UNCHANGED <<rateLimit, now, promise, settles, submitted, outcomes>>
    /\ UNCHANGED <<pvars, cvars>>

\* The transport's promise settles with outcome o; lines 124-125 pass it to the
\* popped item's resolve or reject.
Settle(c, o) ==
    /\ c \in inflight
    /\ c.phase = "pending"
    /\ promise' = Deliver(c, o, promise)
    /\ settles' = [settles EXCEPT ![c.id] = @ + 1]
    /\ inflight' = (inflight \ {c}) \cup {[c EXCEPT !.phase = "settled"]}
    /\ outcomes' = outcomes \cup {[n |-> c.n, outcome |-> o]}
    /\ UNCHANGED <<rateLimit, queue, running, lastTime, now, timers, submitted,
                   started, crashed>>
    /\ UNCHANGED nonQueueVars

\* Lines 126-132: the finally callback, some microtasks after the settlement.
Finally(c) ==
    /\ c \in inflight
    /\ c.phase = "settled"
    /\ inflight' = inflight \ {c}
    /\ IF More(queue)
       THEN /\ timers' = Append(timers, [kind |-> "next", due |-> now])
            /\ running' = running
       ELSE /\ running' = FALSE
            /\ timers' = timers
    /\ UNCHANGED <<rateLimit, queue, lastTime, now, promise, settles, submitted,
                   outcomes, started, crashed>>
    /\ UNCHANGED nonQueueVars

\* One millisecond passes.
Tick ==
    /\ now - lastTime < delayMs(rateLimit) + MaxIdle
    /\ now' = now + 1
    /\ UNCHANGED <<rateLimit, queue, running, lastTime, timers, inflight, promise,
                   settles, submitted, outcomes, started, crashed>>
    /\ UNCHANGED nonQueueVars

QueueInit(rates) ==
    /\ rateLimit \in rates
    /\ queue = <<>>
    /\ running = FALSE
    /\ lastTime = 0
    /\ now = Epoch
    /\ timers = <<>>
    /\ inflight = {}
    /\ promise = <<>>
    /\ settles = <<>>
    /\ submitted = <<>>
    /\ outcomes = {}
    /\ started = <<>>
    /\ crashed = {}

\* -------------------------------------------------------------- JS values

\* A JavaScript value: its type, its text (a string is a sequence of tokens)
\* and its number (a number's value, a Date's instant).
Undefined == [t |-> "undefined", s |-> <<>>, n |-> 0]
Null == [t |-> "null", s |-> <<>>, n |-> 0]
Str(s) == [t |-> "string", s |-> s, n |-> 0]
Num(n) == [t |-> "number", s |-> <<>>, n |-> n]
Bool(b) == [t |-> "boolean", s |-> <<>>, n |-> IF b THEN 1 ELSE 0]
DateOf(n) == [t |-> "date", s |-> <<>>, n |-> n]

\* ToBoolean
Truthy(v) ==
    CASE v.t \in {"undefined", "null"} -> FALSE
      [] v.t = "string" -> v.s # <<>>
      [] v.t = "number" -> v.n # 0
      [] v.t = "boolean" -> v.n = 1
      [] OTHER -> TRUE

\* An object is the sequence of its own properties, <<[k, v]>>, in insertion
\* order.  o[k], absent keys read as undefined:
Get(o, k) ==
    IF \E i \in DOMAIN o : o[i].k = k
    THEN o[CHOOSE i \in DOMAIN o : o[i].k = k].v
    ELSE Undefined

\* { ...o, [k]: v }
With(o, k, v) ==
    IF \E i \in DOMAIN o : o[i].k = k
    THEN [i \in DOMAIN o |-> IF o[i].k = k THEN [k |-> k, v |-> v] ELSE o[i]]
    ELSE Append(o, [k |-> k, v |-> v])

\* const { [ks]: _, ...rest } = o
OmitTestNone(ks, e) == TRUE
OmitTest(ks, e) == e.k \notin ks
Omit(o, ks) == SelectSeq(o, LAMBDA e : OmitTest(ks, e))

\* String.prototype.indexOf for a one-token needle, -1 when absent
LastIndexOf(s, a) ==
    IF \E i \in DOMAIN s : s[i] = a
    THEN (CHOOSE i \in DOMAIN s : s[i] = a /\ \A j \in (i + 1)..Len(s) : s[j] # a) - 1
    ELSE -1
IndexOf(s, a) ==
    IF \E i \in DOMAIN s : s[i] = a
    THEN (CHOOSE i \in DOMAIN s : s[i] = a /\ \A j \in 1..(i - 1) : s[j] # a) - 1
    ELSE -1

\* String.prototype.substring(from, to)
Substring(s, from, to) == SubSeq(s, from + 1, to)

\* String.prototype.includes for a one-token needle
Includes(s, a) == \E i \in DOMAIN s : s[i] = a

\* The date strings of the model and their instants (day of February 2026).
DateTokens == {"2026-02-20T00:00:00Z", "2026-02-25T00:00:00Z", "2026-02-27T00:00:00Z"}

DateInstant(tok) ==
    CASE tok = "2026-02-20T00:00:00Z" -> 20
      [] tok = "2026-02-25T00:00:00Z" -> 25
      [] tok = "2026-02-27T00:00:00Z" -> 27

\* new Date(dateStr).getTime(): NaN for anything but a date string
NaN == -1
DateParse(dateStr) ==
    IF Len(dateStr) = 1 /\ dateStr[1] \in DateTokens
    THEN DateInstant(dateStr[1])
    ELSE NaN

\* ------------------------------------------------------------ pagination

\* Lines 32-46.
parseCursorDate(cursor) ==
    IF ~Truthy(cursor) \/ cursor.t # "string" THEN Null
    ELSE LET pipeIndex == IndexOf(cursor.s, "|")
         IN IF pipeIndex = -1 THEN Null
            ELSE LET dateStr == Substring(cursor.s, 0, pipeIndex)
                 IN IF dateStr = <<"undefined">> THEN Null
                    ELSE LET date == DateParse(dateStr)
                         IN IF date = NaN THEN Null ELSE DateOf(date)

\* Line 60, 62: maxPages = options.maxPages ?? Infinity; pageCount < maxPages
LoopContinuesOneMore(count, mp) == mp.t \in {"undefined", "null"} \/ count <= mp.n
LoopContinues(count, mp) == mp.t \in {"undefined", "null"} \/ count < mp.n

\* Line 79: no next cursor, an empty page, or an "undefined" in the cursor
StopsOnResponseNoEmpty(resp) ==
    \/ ~Truthy(resp.nextCursor)
    \/ Includes(resp.nextCursor.s, "undefined")
StopsOnResponseNoUndefined(resp) ==
    \/ ~Truthy(resp.nextCursor)
    \/ Len(resp.items) = 0
StopsOnResponseUndefinedDate(resp) ==
    \/ ~Truthy(resp.nextCursor)
    \/ Len(resp.items) = 0
    \/ Len(resp.nextCursor.s) >= 1 /\ resp.nextCursor.s[1] = "undefined"
StopsOnResponse(resp) ==
    \/ ~Truthy(resp.nextCursor)
    \/ Len(resp.items) = 0
    \/ Includes(resp.nextCursor.s, "undefined")

\* Lines 84-89: the next cursor is older than the cutoff
StopsOnCutoffNever(resp, ce) == FALSE
StopsOnCutoffInclusive(resp, ce) ==
    /\ Truthy(ce)
    /\ LET cursorDate == parseCursorDate(resp.nextCursor)
       IN Truthy(cursorDate) /\ cursorDate.n <= ce.n
StopsOnCutoffOrNoDate(resp, ce) ==
    /\ Truthy(ce)
    /\ LET cursorDate == parseCursorDate(resp.nextCursor)
       IN ~Truthy(cursorDate) \/ cursorDate.n < ce.n
StopsOnCutoff(resp, ce) ==
    /\ Truthy(ce)
    /\ LET cursorDate == parseCursorDate(resp.nextCursor)
       IN Truthy(cursorDate) /\ cursorDate.n < ce.n

\* Line 64: the input of the next request
requestInputStale(inp, cur) == inp
requestInputCursorOnly(inp, cur) ==
    IF Truthy(cur) THEN <<[k |-> "cursor", v |-> cur]>> ELSE inp
requestInput(inp, cur) == IF Truthy(cur) THEN With(inp, "cursor", cur) ELSE inp

\* What a settled next()/return() request gave the consumer.
PageResult(resp) ==
    [kind |-> "page", items |-> resp.items,
     cursor |-> IF Truthy(resp.nextCursor) THEN resp.nextCursor ELSE Str(<<>>),
     error |-> "none"]
DoneResult == [kind |-> "done", items |-> <<>>, cursor |-> Undefined, error |-> "none"]
ReturnResult == [kind |-> "returned", items |-> <<>>, cursor |-> Undefined, error |-> "none"]
ErrorResultWrapped(e) ==
    [kind |-> "error", items |-> <<>>, cursor |-> Undefined, error |-> "wrapped"]
ErrorResult(e) == [kind |-> "error", items |-> <<>>, cursor |-> Undefined, error |-> e]
ValueResult(resp) ==
    [kind |-> "value", items |-> resp.items, cursor |-> resp.nextCursor, error |-> "none"]

\* What the server may answer.
ItemLists == {<<>>, <<"item1">>}

NextCursors ==
    { Undefined,
      Str(<<>>),
      Str(<<"2026-02-20T00:00:00Z", "|", "abc">>),
      Str(<<"2026-02-25T00:00:00Z", "|", "abd">>),
      Str(<<"2026-02-27T00:00:00Z", "|", "abe">>),
      Str(<<"nopipe">>),
      Str(<<"notadate", "|", "abf">>),
      Str(<<"undefined", "|", "abg">>),
      Str(<<"2026-02-27T00:00:00Z", "|", "undefined">>) }

Responses == [items : ItemLists, nextCursor : NextCursors]

QueryErrors == {"error1", "error2"}

\* Entries of the log of the server's answers.
Served(resp) ==
    [ok |-> TRUE, items |-> resp.items, nextCursor |-> resp.nextCursor, error |-> "none"]
Failed(e) == [ok |-> FALSE, items |-> <<>>, nextCursor |-> Undefined, error |-> e]

\* The inputs callers pass to an operation.
Opt(k, vs) == {<<>>} \cup {<<[k |-> k, v |-> v]>> : v \in vs}

RawInputs ==
    { a \o <<[k |-> "type", v |-> Str(<<"last">>)]>> \o m \o c \o e
        \o <<[k |-> "limit", v |-> Num(10)]>> :
        c \in Opt("cursor", {Str(<<"2026-02-27T00:00:00Z", "|", "start">>)}),
        a \in Opt("autoPaginate", {Bool(TRUE), Bool(FALSE), Num(1), Str(<<"true">>)}),
        m \in Opt("maxPages", {Num(k) : k \in 0..MaxPagesOpt}),
        e \in Opt("cursorEnd", {DateOf(25)}) }

\* Line 298: input.autoPaginate === true
IsAutoPaginateTruthy(inp) == Truthy(Get(inp, "autoPaginate"))
IsAutoPaginate(inp) == Get(inp, "autoPaginate") = Bool(TRUE)

\* Lines 293-308: the proxy's apply.  given: an argument was passed, and it
\* is the object obj; otherwise argArray[0] is undefined and `?? {}` makes the
\* input the empty object.
Invoke(given, obj) ==
    /\ session = "none"
    /\ arg' = [given |-> given, obj |-> obj]
    /\ LET raw == IF given THEN obj ELSE <<>>
       IN IF IsAutoPaginate(raw)
          THEN /\ session' = "paginated"
               /\ input' = Omit(raw, {"autoPaginate", "maxPages", "cursorEnd"})
               /\ maxPages' = Get(raw, "maxPages")
               /\ cursorEnd' = Get(raw, "cursorEnd")
               /\ genPc' = "start"
               /\ calls' = calls
          ELSE /\ session' = "single"
               /\ calls' = Append(calls, raw)
               /\ genPc' = "single"
               /\ UNCHANGED <<input, maxPages, cursorEnd>>
    /\ UNCHANGED <<currentCursor, pageCount, response, reqs, results, served>>
    /\ UNCHANGED nonPageVars

\* The single call's promise settles.
SingleSettles(ok, resp, e) ==
    /\ genPc = "single"
    /\ genPc' = "done"
    /\ served' = Append(served, IF ok THEN Served(resp) ELSE Failed(e))
    /\ results' = Append(results, IF ok THEN ValueResult(resp) ELSE ErrorResult(e))
    /\ UNCHANGED <<arg, session, input, maxPages, cursorEnd, currentCursor, pageCount,
                   response, reqs, calls>>
    /\ UNCHANGED nonPageVars

\* The consumer asks for the next page: next() on the iterator.
ConsumerNext ==
    /\ session = "paginated"
    /\ Len(reqs) + Len(results) < MaxRequests
    /\ reqs' = Append(reqs, "next")
    /\ UNCHANGED <<arg, session, input, maxPages, cursorEnd, currentCursor, pageCount,
                   response, genPc, results, calls, served>>
    /\ UNCHANGED nonPageVars

\* The consumer stops iterating: return() on the iterator (a break in for await).
ConsumerReturn ==
    /\ session = "paginated"
    /\ Len(reqs) + Len(results) < MaxRequests
    /\ reqs' = Append(reqs, "return")
    /\ UNCHANGED <<arg, session, input, maxPages, cursorEnd, currentCursor, pageCount,
                   response, genPc, results, calls, served>>
    /\ UNCHANGED nonPageVars

\* Line 62-65: the loop head with page count `count` and cursor `cur`: either
\* the next query is made, or the generator returns.
LoopHead(count, cur) ==
    IF LoopContinues(count, maxPages)
    THEN /\ calls' = Append(calls, requestInput(input, cur))
         /\ genPc' = "awaiting"
         /\ UNCHANGED <<reqs, results>>
    ELSE /\ genPc' = "done"
         /\ results' = Append(results, DoneResult)
         /\ reqs' = Tail(reqs)
         /\ calls' = calls

\* An async generator runs for one request at a time: it takes the next
\* request of its queue only while suspended at its start or at a yield.
SuspendedOrAwaiting(pc) == pc \in {"start", "yield", "awaiting"}
Suspended(pc) == pc \in {"start", "yield"}

\* A return() request ends a suspended generator instead of resuming its body.
IsReturnNever(req) == FALSE
IsReturn(req) == req = "return"

\* The generator takes the request at the head of its queue and runs to its
\* next await or to its end: lines 58-65 from the start, lines 76-92 and 62-65
\* from the yield.
GenResume ==
    /\ Suspended(genPc)
    /\ reqs # <<>>
    /\ IF IsReturn(Head(reqs))
       THEN /\ genPc' = "done"
            /\ results' = Append(results, ReturnResult)
            /\ reqs' = Tail(reqs)
            /\ UNCHANGED <<currentCursor, pageCount, calls>>
       ELSE IF genPc = "start"
       THEN /\ currentCursor' = Get(input, "cursor")
            /\ pageCount' = 0
            /\ LoopHead(0, Get(input, "cursor"))
       ELSE /\ pageCount' = pageCount + 1
            /\ IF StopsOnResponse(response) \/ StopsOnCutoff(response, cursorEnd)
               THEN /\ genPc' = "done"
                    /\ results' = Append(results, DoneResult)
                    /\ reqs' = Tail(reqs)
                    /\ UNCHANGED <<currentCursor, calls>>
               ELSE /\ currentCursor' = response.nextCursor
                    /\ LoopHead(pageCount + 1, response.nextCursor)
    /\ UNCHANGED <<arg, session, input, maxPages, cursorEnd, response, served>>
    /\ UNCHANGED nonPageVars

\* A request to a generator that has finished settles with done.
GenFinished ==
    /\ session = "paginated"
    /\ genPc = "done"
    /\ reqs # <<>>
    /\ results' = Append(results, IF IsReturn(Head(reqs)) THEN ReturnResult ELSE DoneResult)
    /\ reqs' = Tail(reqs)
    /\ UNCHANGED <<arg, session, input, maxPages, cursorEnd, currentCursor, pageCount,
                   response, genPc, calls, served>>
    /\ UNCHANGED nonPageVars

\* Lines 65-74: the query resolves with resp; the page is yielded to the
\* pending next().
QueryOk(resp) ==
    /\ genPc = "awaiting"
    /\ Len(served) < MaxServed
    /\ response' = resp
    /\ served' = Append(served, Served(resp))
    /\ results' = Append(results, PageResult(resp))
    /\ reqs' = Tail(reqs)
    /\ genPc' = "yield"
    /\ UNCHANGED <<arg, session, input, maxPages, cursorEnd, currentCursor, pageCount, calls>>
    /\ UNCHANGED nonPageVars

\* Line 65: the query rejects; the await throws, the generator ends and the
\* pending next() rejects with the error.
QueryFail(e) ==
    /\ genPc = "awaiting"
    /\ Len(served) < MaxServed
    /\ served' = Append(served, Failed(e))
    /\ results' = Append(results, ErrorResult(e))
    /\ reqs' = Tail(reqs)
    /\ genPc' = "done"
    /\ UNCHANGED <<arg, session, input, maxPages, cursorEnd, currentCursor, pageCount,
                   response, calls>>
    /\ UNCHANGED nonPageVars

PageInit ==
    /\ arg = [given |-> FALSE, obj |-> <<>>]
    /\ session = "none"
    /\ input = <<>>
    /\ maxPages = Undefined
    /\ cursorEnd = Undefined
    /\ currentCursor = Undefined
    /\ pageCount = 0
    /\ response = [items |-> <<>>, nextCursor |-> Undefined]
    /\ genPc = "none"
    /\ reqs = <<>>
    /\ results = <<>>
    /\ calls = <<>>
    /\ served = <<>>

\* ------------------------------------------------------------ fetch wrappers

\* A fetch call is [input, init].  input: [kind, url, method, headers], kind
\* "string" or "Request" (method and headers are those of a Request).  init:
\* [given, method, headers, body, signal]; "none" stands for an absent field,
\* headers is [given, list].  A URL is [abs, path, query]: abs says that
\* `new URL` parses it (it is absolute), path is the pathname as tokens,
\* query the parameters as written, <<[k, raw]>>.  A Headers object is a set
\* of [k, v] with lower-case names.

\* String.prototype.toUpperCase on the method names of the model
ToUpperCase(m) ==
    CASE m = "get" -> "GET"
      [] m = "post" -> "POST"
      [] OTHER -> m

\* Header names are case-insensitive: Headers stores them in lower case.
LowerName(k) ==
    CASE k = "Content-Type" -> "content-type"
      [] k = "X-Api-Key" -> "x-api-key"
      [] OTHER -> k

\* URLSearchParams decodes the values it reads and encodes those it writes.
DecodeParam(raw) ==
    CASE raw = "%7Ba%7D" -> "{a}"
      [] raw = "%7Baaaa%7D" -> "{aaaa}"
      [] raw = "a%20b" -> "a b"
      [] raw = "a+b" -> "a b"
      [] OTHER -> raw

EncodeParam(v) ==
    CASE v = "{a}" -> "%7Ba%7D"
      [] v = "{aaaa}" -> "%7Baaaa%7D"
      [] v = "a b" -> "a+b"
      [] OTHER -> v

\* urlObj.searchParams.get(k): the decoded value of the first parameter k,
\* "null" when there is none.
SearchParamsGet(query, k) ==
    IF \E i \in DOMAIN query : query[i].k = k
    THEN DecodeParam(query[CHOOSE i \in DOMAIN query :
                              query[i].k = k /\ \A j \in 1..(i - 1) : query[j].k # k].raw)
    ELSE "null"

\* urlObj.searchParams.delete(k): every parameter k is removed and the query
\* is serialised anew.
SearchParamsKeepAll(query, k) == query
SearchParamsDelete(query, k) ==
    LET rest == SelectSeq(query, LAMBDA e : e.k # k)
    IN [i \in DOMAIN rest |-> [k |-> rest[i].k, raw |-> EncodeParam(DecodeParam(rest[i].raw))]]

\* headers.set(k, v)
HeadersSet(h, k, v) == {e \in h : e.k # LowerName(k)} \cup {[k |-> LowerName(k), v |-> v]}

\* new Headers(init.headers).forEach((value, key) => headers.set(key, value))
RECURSIVE HeadersSetAll(_, _)
HeadersSetAll(h, list) ==
    IF list = <<>> THEN h
    ELSE HeadersSetAll(HeadersSet(h, Head(list).k, Head(list).v), Tail(list))

\* Lines 146-148: the method of the call
MethodAlwaysGet(req) == "GET"
MethodOf(req) ==
    ToUpperCase(IF req.init.given /\ req.init.method # "none" THEN req.init.method
                ELSE IF req.input.kind = "Request" THEN req.input.method
                ELSE "GET")

\* Lines 173-181: the headers of the rewritten call
RewrittenHeadersAlwaysJson(req) ==
    LET own == IF req.input.kind = "Request" THEN req.input.headers ELSE {}
        merged == IF req.init.given /\ req.init.headers.given
                  THEN HeadersSetAll(own, req.init.headers.list)
                  ELSE own
    IN HeadersSet(merged, "content-type", "application/json")
RewrittenHeaders(req) ==
    LET own == IF req.input.kind = "Request" THEN req.input.headers ELSE {}
        merged == IF req.init.given /\ req.init.headers.given
                  THEN HeadersSetAll(own, req.init.headers.list)
                  ELSE own
    IN IF \E e \in merged : e.k = "content-type"
       THEN merged
       ELSE HeadersSet(merged, "content-type", "application/json")

\* Lines 145-191: the call postQueryFetch makes on f for the call req.
postQueryFetchOverBudget(req) ==
    IF MethodOf(req) # "GET" THEN req
    ELSE IF ~req.input.url.abs THEN req
    ELSE LET inputParam == SearchParamsGet(req.input.url.query, "input")
         IN IF inputParam \in {"null", "", "{a}"} THEN req
            ELSE [input |-> [kind |-> "string",
                             url |-> [req.input.url EXCEPT
                                        !.query = SearchParamsDelete(@, "input")],
                             method |-> "none",
                             headers |-> {}],
                  init |-> [given |-> TRUE,
                            method |-> "POST",
                            headers |-> [given |-> TRUE, set |-> RewrittenHeaders(req),
                                         list |-> <<>>],
                            body |-> inputParam,
                            signal |-> IF req.init.given THEN req.init.signal ELSE "none"]]
postQueryFetch(req) ==
    IF MethodOf(req) # "GET" THEN req
    ELSE IF ~req.input.url.abs THEN req
    ELSE LET inputParam == SearchParamsGet(req.input.url.query, "input")
         IN IF inputParam \in {"null", ""} THEN req
            ELSE [input |-> [kind |-> "string",
                             url |-> [req.input.url EXCEPT
                                        !.query = SearchParamsDelete(@, "input")],
                             method |-> "none",
                             headers |-> {}],
                  init |-> [given |-> TRUE,
                            method |-> "POST",
                            headers |-> [given |-> TRUE, set |-> RewrittenHeaders(req),
                                         list |-> <<>>],
                            body |-> inputParam,
                            signal |-> IF req.init.given THEN req.init.signal ELSE "none"]]

\* s.split(sep) for a one-token separator
RECURSIVE Split(_, _)
Split(s, sep) ==
    IF \E i \in DOMAIN s : s[i] = sep
    THEN LET i == CHOOSE i \in DOMAIN s : s[i] = sep /\ \A j \in 1..(i - 1) : s[j] # sep
         IN <<SubSeq(s, 1, i - 1)>> \o Split(SubSeq(s, i + 1, Len(s)), sep)
    ELSE <<s>>

\* Line 216: path.split("/").pop() ?? ""
lastSegment(url) == LET parts == Split(url.path, "/") IN parts[Len(parts)]

\* Line 217: lastSegment.split(",").filter(Boolean)
paths(url) == SelectSeq(Split(lastSegment(url), ","), LAMBDA n : n # <<>>)

\* Line 218
isBatchByMarker(url) == SearchParamsGet(url.query, "batch") = "1"
isBatch(url) == SearchParamsGet(url.query, "batch") = "1" \/ Len(paths(url)) > 1

NoInfo ==
    [method |-> "none", url |-> [abs |-> FALSE, path |-> <<>>, query |-> <<>>],
     path |-> <<>>, paths |-> <<>>, batchSize |-> 0, body |-> "none"]

\* Lines 221-229: the BatchLogInfo of the call req
BatchLogInfo(req) ==
    [method |-> ToUpperCase(IF req.init.given /\ req.init.method # "none"
                            THEN req.init.method
                            ELSE IF req.input.kind = "Request" THEN req.input.method
                            ELSE "GET"),
     url |-> req.input.url,
     path |-> lastSegment(req.input.url),
     paths |-> paths(req.input.url),
     batchSize |-> Len(paths(req.input.url)),
     body |-> IF req.init.given THEN req.init.body ELSE "none"]

\* Line 198: `if (!logBatches) return origFetch`
Observed(lb) == lb \in {"true", "function"}

\* Lines 213-232: whether loggedFetch hands an event to logFn for the call req
Emits(lb, req) == Observed(lb) /\ req.input.url.abs /\ isBatch(req.input.url)

\* Lines 213, 230-232: an exception of logFn is caught, it does not leave
\* loggedFetch.
EscapesWhenThrown(thrown) == thrown
Escapes(thrown) == FALSE

\* Line 264
appliedRateLimitNoKey(o) == IF o.rateLimit \notin {Undefined, Null} THEN o.rateLimit.n ELSE 100
appliedRateLimitOf(o) ==
    IF o.rateLimit \notin {Undefined, Null} THEN o.rateLimit.n
    ELSE IF o.apiKey # Undefined THEN 200 ELSE 100

\* The options of the model's clients.
ClientOptions ==
    [rateLimit : {Undefined, Num(50)},
     apiKey : {Undefined, Str(<<>>), Str(<<"key1">>)},
     logBatches : {"undefined", "false", "true", "function"}]

NoClient == [rateLimit |-> Undefined, apiKey |-> Undefined, logBatches |-> "nothing"]

\* Lines 263-268: createAPIClient(o)
CreateClient(o) ==
    /\ options = NoClient
    /\ options' = o
    /\ appliedRateLimit' = appliedRateLimitOf(o)
    /\ UNCHANGED <<wireIn, postOut, wireLog, wireResult>>

\* The URLs, inputs and options of the model's fetch calls.
Param(k, raw) == [k |-> k, raw |-> raw]

WirePaths ==
    { <<"/", "trpc", "/", "a">>,
      <<"/", "trpc", "/", "a", ",", "b">>,
      <<"/", "trpc", "/", "a", ",">>,
      <<"/", "trpc", "/", "a", ",", "b", "/">> }

WireQueries ==
    { <<>>,
      <<Param("input", "%7Ba%7D")>>,
      <<Param("input", "%7Baaaa%7D")>>,
      <<Param("batch", "1"), Param("input", "%7Ba%7D")>>,
      <<Param("input", "%7Ba%7D"), Param("x", "a%20b")>>,
      <<Param("input", "")>>,
      <<Param("batch", "1")>>,
      <<Param("batch", "0"), Param("input", "%7Ba%7D")>>,
      <<Param("input", "%7Ba%7D"), Param("input", "%7Baaaa%7D")>> }

WireUrls ==
    [abs : {TRUE}, path : WirePaths, query : WireQueries]
    \cup [abs : {FALSE},
          path : {<<"/", "trpc", "/", "a", ",", "b">>},
          query : {<<>>, <<Param("batch", "1"), Param("input", "%7Ba%7D")>>}]

NoHeaders == [given |-> FALSE, set |-> {}, list |-> <<>>]
HeaderList(l) == [given |-> TRUE, set |-> {}, list |-> l]

WireInputs ==
    [kind : {"string"}, url : WireUrls, method : {"none"}, headers : {{}}]
    \cup [kind : {"Request"}, url : WireUrls, method : {"GET", "POST"}, headers : {{}}]
    \cup [kind : {"Request"}, url : WireUrls, method : {"GET"},
          headers : {{[k |-> "content-type", v |-> "text/plain"],
                      [k |-> "accept", v |-> "any"]}}]

NoRequestInit ==
    [given |-> FALSE, method |-> "none", headers |-> NoHeaders, body |-> "none",
     signal |-> "none"]

WireInits ==
    { NoRequestInit,
      [NoRequestInit EXCEPT !.given = TRUE, !.signal = "signal1"],
      [NoRequestInit EXCEPT !.given = TRUE, !.method = "get",
          !.headers = HeaderList(<<[k |-> "Content-Type", v |-> "text/csv"]>>)],
      [NoRequestInit EXCEPT !.given = TRUE,
          !.headers = HeaderList(<<[k |-> "X-Api-Key", v |-> "key1"]>>)],
      [NoRequestInit EXCEPT !.given = TRUE, !.method = "POST", !.body = "{b}"],
      [NoRequestInit EXCEPT !.given = TRUE, !.method = "post", !.body = "{b}",
          !.signal = "signal1"] }

WireRequests == [input : WireInputs, init : WireInits]

WirePending == [state |-> "pending", value |-> "none"]
WireOutcomes ==
    { [state |-> "fulfilled", value |-> "response1"],
      [state |-> "rejected", value |-> "error1"] }

\* The entries of wireLog of a kind.
BaseCalls == SelectSeq(wireLog, LAMBDA e : e.kind = "base")
BatchEvents == SelectSeq(wireLog, LAMBDA e : e.kind = "event")

\* Lines 145-191, 206-235: one call of postQueryFetch, whose f is loggedFetch,
\* whose origFetch is the base fetch; all three run in the caller's job.
\* obsThrows: logFn throws; baseThrows: the base fetch throws synchronously.
\* The log keeps the clock's reading of each event and each base call.
WireCall(req, obsThrows, baseThrows) ==
    /\ LET out == postQueryFetch(req)
           emits == Emits(options.logBatches, out)
           event == [kind |-> "event", req |-> out, info |-> BatchLogInfo(out),
                     at |-> now,
                     outcome |-> IF obsThrows
                                 THEN [state |-> "thrown", value |-> "observerError"]
                                 ELSE [state |-> "returned", value |-> "none"]]
           thrown == [state |-> "thrown", value |-> "error1"]
           logged == IF emits THEN Append(wireLog, event) ELSE wireLog
       IN
       /\ obsThrows => (emits /\ options.logBatches = "function")
       /\ wireIn' = Append(wireIn, req)
       /\ postOut' = Append(postOut, out)
       /\ IF emits /\ Escapes(obsThrows)
          THEN /\ wireLog' = logged
               /\ wireResult' = [state |-> "thrown", value |-> "observerError"]
          ELSE /\ wireLog' = Append(logged,
                    [kind |-> "base", req |-> out, info |-> NoInfo, at |-> now,
                     outcome |-> IF baseThrows THEN thrown ELSE WirePending])
               /\ wireResult' = IF baseThrows THEN thrown ELSE WirePending
       /\ UNCHANGED <<options, appliedRateLimit>>

\* The one fetch call made directly on a client's postQueryFetch.
Wire(req, obsThrows, baseThrows) ==
    /\ options # NoClient
    /\ wireIn = <<>>
    /\ WireCall(req, obsThrows, baseThrows)

\* The promise the base fetch returned settles; it is the promise the caller
\* holds.
BaseSettles(o) ==
    /\ wireResult = WirePending
    /\ wireIn # <<>>
    /\ wireResult' = o
    /\ wireLog' = [wireLog EXCEPT ![Len(wireLog)].outcome = o]
    /\ UNCHANGED <<options, appliedRateLimit, wireIn, postOut>>

WireIdle ==
    /\ options = NoClient
    /\ appliedRateLimit = 0
    /\ wireIn = <<>>
    /\ postOut = <<>>
    /\ wireLog = <<>>
    /\ wireResult = WirePending

\* ------------------------------------------------------------ cursor codec

\* The tokens cursors are made of, and the arguments parseCursorDate is
\* called with: null, undefined, a number, and every string of at most
\* MaxCursorLen tokens.
CursorTokens == DateTokens \cup {"|", "undefined", "notadate"}

RECURSIVE TokenSeqs(_)
TokenSeqs(n) ==
    IF n = 0 THEN {<<>>}
    ELSE LET shorter == TokenSeqs(n - 1)
         IN shorter \cup {Append(s, a) : s \in {t \in shorter : Len(t) = n - 1},
                                          a \in CursorTokens}

CursorInputs == {Null, Undefined, Num(5)} \cup {Str(s) : s \in TokenSeqs(MaxCursorLen)}

NotCalled == [t |-> "notcalled", s |-> <<>>, n |-> 0]

\* No call of parseCursorDate is being observed.
CodecIdle ==
    /\ parseArg = Undefined
    /\ parseResult = NotCalled

\* A call parseCursorDate(parseArg) returns.
ParseCall ==
    /\ parseResult = NotCalled
    /\ parseResult' = parseCursorDate(parseArg)
    /\ UNCHANGED <<parseArg, qvars, pvars, wvars>>

vars == <<qvars, pvars, cvars, wvars>>

\* ------------------------------------------------------------ specifications

Init == QueueInit(Rates) /\ PageInit /\ CodecIdle /\ WireIdle

SubmitCall == \E a \in ReqArgs, thr \in BOOLEAN : Submit(a, thr, MaxCalls) /\ UNCHANGED wvars
WaitTimer == \E i \in 1..Len(timers), thr \in BOOLEAN : WaitDone(i, thr) /\ UNCHANGED wvars
NextTimer == \E i \in 1..Len(timers), thr \in BOOLEAN : NextStep(i, thr) /\ UNCHANGED wvars
TransportSettles == \E c \in inflight, o \in TransportOutcomes : Settle(c, o)
FinallyRuns == \E c \in inflight : Finally(c)

Next ==
    \/ SubmitCall
    \/ WaitTimer
    \/ NextTimer
    \/ TransportSettles
    \/ FinallyRuns
    \/ Tick

Spec == Init /\ [][Next]_vars

\* LiveSpec: the queue of Spec at one rate, with one request and two outcomes,
\* under the fairness of the event loop.
LiveRates == {30000}

LiveInit == QueueInit(LiveRates) /\ PageInit /\ CodecIdle /\ WireIdle

LiveSubmit == \E thr \in BOOLEAN : Submit("reqA", thr, MaxCalls) /\ UNCHANGED wvars
LiveSettles ==
    \E c \in inflight :
        \/ Settle(c, [state |-> "fulfilled", value |-> "response1"])
        \/ Settle(c, [state |-> "rejected", value |-> "error1"])

LiveNext ==
    \/ LiveSubmit
    \/ WaitTimer
    \/ NextTimer
    \/ LiveSettles
    \/ FinallyRuns
    \/ Tick

\* The event loop runs every due timer and every queued promise reaction, the
\* clock advances, and (the premise of the liveness claims) the transport
\* settles every promise it returned.
Fairness ==
    /\ WF_vars(WaitTimer)
    /\ WF_vars(NextTimer)
    /\ WF_vars(LiveSettles)
    /\ WF_vars(FinallyRuns)
    /\ WF_vars(Tick)

LiveSpec == LiveInit /\ [][LiveNext]_vars /\ Fairness

\* CeilSpec: a queue at a low rate, observed over more than a minute.  The
\* clock moves from one timer expiry to the next, the transport never throws.
CeilRates == {6, 7}

CeilInit == QueueInit(CeilRates) /\ PageInit /\ CodecIdle /\ WireIdle

CeilSubmit == Submit("reqA", FALSE, CeilCalls) /\ UNCHANGED wvars
CeilWaitTimer == \E i \in 1..Len(timers) : WaitDone(i, FALSE) /\ UNCHANGED wvars
CeilNextTimer == \E i \in 1..Len(timers) : NextStep(i, FALSE) /\ UNCHANGED wvars
CeilSettles == \E c \in inflight : Settle(c, [state |-> "fulfilled", value |-> "response1"])

\* Time passes until a pending rate-limit timer is due.
Elapse ==
    /\ \E i \in 1..Len(timers) :
          /\ timers[i].kind = "wait"
          /\ timers[i].due > now
          /\ now' = timers[i].due
    /\ UNCHANGED <<rateLimit, queue, running, lastTime, timers, inflight, promise,
                   settles, submitted, outcomes, started, crashed>>
    /\ UNCHANGED nonQueueVars

CeilNext ==
    \/ CeilSubmit
    \/ CeilWaitTimer
    \/ CeilNextTimer
    \/ CeilSettles
    \/ FinallyRuns
    \/ Elapse

CeilSpec == CeilInit /\ [][CeilNext]_vars

\* PageSpec: one invocation of an operation through the proxy and, when it
\* paginates, its consumer and its server.
PageSpecInit == QueueInit({30000}) /\ PageInit /\ CodecIdle /\ WireIdle

InvokeOperation ==
    \/ \E raw \in RawInputs : Invoke(TRUE, raw)
    \/ Invoke(FALSE, <<>>)
SingleCallSettles ==
    \E resp \in Responses, e \in QueryErrors :
        \/ SingleSettles(TRUE, resp, e)
        \/ SingleSettles(FALSE, resp, e)
QueryResolves == \E resp \in Responses : QueryOk(resp)
QueryRejects == \E e \in QueryErrors : QueryFail(e)

PageNext ==
    \/ InvokeOperation
    \/ SingleCallSettles
    \/ ConsumerNext
    \/ ConsumerReturn
    \/ GenResume
    \/ GenFinished
    \/ QueryResolves
    \/ QueryRejects

\* The cursor codec alone: parseCursorDate applied to each cursor.
ParseInit ==
    /\ QueueInit({30000})
    /\ PageInit
    /\ WireIdle
    /\ parseArg \in CursorInputs
    /\ parseResult = NotCalled

ParseNext == ParseCall

ParseSpec == ParseInit /\ [][ParseNext]_vars

\* WireSpec: one client is created and one fetch call goes through its URL
\* rewrite, its batch observer and its base fetch.
WireInit == QueueInit({30000}) /\ PageInit /\ CodecIdle /\ WireIdle

ClientCreated ==
    /\ options = NoClient
    /\ \E o \in ClientOptions : CreateClient(o) /\ UNCHANGED nonWireVars
WireRequest ==
    /\ wireIn = <<>>
    /\ \E req \in WireRequests, obsThrows \in BOOLEAN, baseThrows \in BOOLEAN :
          Wire(req, obsThrows, baseThrows) /\ UNCHANGED nonWireVars
BaseFetchSettles == \E o \in WireOutcomes : BaseSettles(o) /\ UNCHANGED nonWireVars

WireNext ==
    \/ ClientCreated
    \/ WireRequest
    \/ BaseFetchSettles

WireSpec == WireInit /\ [][WireNext]_vars

PageSpec == PageSpecInit /\ [][PageNext]_vars

\* ClientSpec: a client whose calls go through createRateLimitedFetch over
\* postQueryFetch over loggedFetch over the base fetch (lines 265-268).

\* Lines 277-282: headers(), for a client without a headers option
clientHeaders(o) ==
    IF Truthy(o.apiKey)
    THEN <<[k |-> "x-api-key", v |-> IF o.apiKey = Str(<<"key1">>) THEN "key1" ELSE "key"]>>
    ELSE <<>>

\* Lines 272-283: the calls the batch link makes on its fetch option: a GET
\* with the batch's input in the URL or a POST with it in the body, with the
\* headers of headers().
LinkUrls ==
    { [abs |-> TRUE, path |-> <<"/", "trpc", "/", "a", ",", "b">>,
       query |-> <<Param("batch", "1"), Param("input", "%7Ba%7D")>>],
      [abs |-> TRUE, path |-> <<"/", "trpc", "/", "a">>,
       query |-> <<Param("input", "%7Baaaa%7D")>>] }

LinkRequests(o) ==
    { [input |-> [kind |-> "string", url |-> u, method |-> "none", headers |-> {}],
       init |-> [given |-> TRUE, method |-> "GET",
                 headers |-> HeaderList(clientHeaders(o)),
                 body |-> "none", signal |-> "none"]] : u \in LinkUrls }
    \cup
    { [input |-> [kind |-> "string",
                  url |-> [abs |-> TRUE, path |-> <<"/", "trpc", "/", "a", ",", "b">>,
                           query |-> <<Param("batch", "1")>>],
                  method |-> "none", headers |-> {}],
       init |-> [given |-> TRUE, method |-> "POST",
                 headers |-> HeaderList(clientHeaders(o)),
                 body |-> "{b}", signal |-> "none"]] }

\* Lines 263-268: the client made of the options o, before its first call.
ClientUp(o) ==
    /\ options = o
    /\ appliedRateLimit = appliedRateLimitOf(o)
    /\ QueueInit({appliedRateLimitOf(o)})
    /\ wireIn = <<>>
    /\ postOut = <<>>
    /\ wireLog = <<>>
    /\ wireResult = WirePending

\* Line 123 in a client: the f the drain loop calls is postQueryFetch; the
\* step that pops a call makes the wire call for it.
TransportedOnSubmit(obsThrows, thr) ==
    IF Len(submitted') > Len(submitted)
    THEN WireCall(submitted'[Len(submitted')].args, obsThrows, thr)
    ELSE UNCHANGED wvars
Transported(obsThrows, thr) ==
    IF Len(started') > Len(started)
    THEN WireCall(started'[Len(started')].args, obsThrows, thr)
    ELSE UNCHANGED wvars

QueuedOptions ==
    [rateLimit : {Num(30000)},
     apiKey : {Undefined},
     logBatches : {"undefined", "function"}]

ClientInit == (\E o \in QueuedOptions : ClientUp(o)) /\ PageInit /\ CodecIdle

ClientSubmit ==
    \E req \in LinkRequests(options), thr \in BOOLEAN, obsThrows \in BOOLEAN :
        Submit(req, thr, MaxWireCalls) /\ Transported(obsThrows, thr)
ClientWaitTimer ==
    \E i \in 1..Len(timers), thr \in BOOLEAN, obsThrows \in BOOLEAN :
        WaitDone(i, thr) /\ Transported(obsThrows, thr)
ClientNextTimer ==
    \E i \in 1..Len(timers), thr \in BOOLEAN, obsThrows \in BOOLEAN :
        NextStep(i, thr) /\ Transported(obsThrows, thr)

ClientNext ==
    \/ ClientSubmit
    \/ ClientWaitTimer
    \/ ClientNextTimer
    \/ TransportSettles
    \/ FinallyRuns
    \/ Tick

ClientSpec == ClientInit /\ [][ClientNext]_vars

\* KeySpec: the clients of every rate and key option; time passes from one
\* rate-limit timer to the next.
KeyInit == (\E o \in ClientOptions : ClientUp(o)) /\ PageInit /\ CodecIdle

KeyNext ==
    \/ ClientSubmit
    \/ ClientWaitTimer
    \/ ClientNextTimer
    \/ TransportSettles
    \/ FinallyRuns
    \/ Elapse

KeySpec == KeyInit /\ [][KeyNext]_vars

\* ------------------------------------------------------------------ claims

StartedIds == {started[n].id : n \in DOMAIN started}
PendingCalls == {c \in inflight : c.phase = "pending"}

\* C1: the start times of any two consecutively dispatched transport calls of
\* one queue differ by at least delayMs, whatever the interleaving of
\* submissions, timers and settlements.
C1_MinSpacing ==
    \A k \in 1..(Len(started) - 1) :
        started[k + 1].at - started[k].at >= delayMs(rateLimit)

\* A second call was held back by the rate-limit wait of a spacing above 1 ms
\* and dispatched exactly when the spacing had elapsed.
C1_Witness ==
    /\ delayMs(rateLimit) >= 2
    /\ Len(started) >= 2
    /\ started[2].at - started[1].at = delayMs(rateLimit)

\* C2: at most one transport call of the queue is unsettled at any instant;
\* when call k+1 has been dispatched, call k has settled and its own promise
\* has been fulfilled or rejected.
C2_OneInFlight ==
    /\ Cardinality(PendingCalls) <= 1
    /\ \A k \in 1..(Len(started) - 1) : promise[started[k].id] # Pending
    /\ \A c \in PendingCalls : c.n = Len(started)

\* The second dispatched call hangs while a third call is queued behind it.
C2_Witness ==
    /\ Len(started) = 2
    /\ PendingCalls # {}
    /\ Len(queue) >= 1

\* C3: calls are dispatched in exactly their submission order: the k-th
\* transport invocation is the k-th submitted call, with its arguments.
C3_Fifo ==
    \A k \in DOMAIN started :
        /\ started[k].id = k
        /\ started[k].args = submitted[k].args

\* A call submitted during a rate-limit wait, behind an earlier call, has been
\* dispatched.
C3_Witness ==
    \E k \in DOMAIN started :
        /\ k >= 2
        /\ submitted[k].waiting

\* C4: a submission never rejects on admission, and every submitted call is
\* eventually dispatched and its promise settles, provided the transport
\* settles every call dispatched to it (it neither hangs nor throws
\* synchronously); earlier failures do not prevent it.
C4_Liveness ==
    /\ [](\A i \in DOMAIN promise : promise[i] # Pending => i \in StartedIds)
    /\ \A i \in 1..MaxCalls :
          (Len(submitted) >= i) ~>
              ((i \in DOMAIN promise /\ promise[i] # Pending) \/ crashed # {})

\* The first call failed and the call queued behind it settled.
C4_Witness ==
    /\ Len(promise) >= 2
    /\ promise[1].state = "rejected"
    /\ promise[2] # Pending
    /\ Len(queue) = 0

\* C5: the spacing times the rate is at least a minute, for every rate up to
\* 60000 calls per minute.
C5_SpacingCoversMinute ==
    rateLimit <= MsPerMinute => delayMs(rateLimit) * rateLimit >= MsPerMinute

\* C6: within any half-open window of one minute at most rateLimit calls are
\* dispatched.
C6_RateCeiling ==
    (1 <= rateLimit /\ rateLimit <= MsPerMinute) =>
        \A i \in DOMAIN started : \A j \in DOMAIN started :
            (i <= j /\ started[j].at - started[i].at < MsPerMinute)
                => j - i + 1 <= rateLimit

\* The promise of call i carries the outcome the transport produced for the
\* invocation made for call i.
OwnOutcome(i) ==
    \E n \in DOMAIN started :
        /\ started[n].id = i
        /\ started[n].args = submitted[i].args
        /\ [n |-> n, outcome |-> promise[i]] \in outcomes

\* C7: the promise of call i settles at most once, with exactly the outcome of
\* the transport invocation made for call i; a settlement changes no other
\* call's promise, and a settled promise never changes.
C7_OutcomeIsolation ==
    /\ [](\A i \in DOMAIN promise :
            /\ settles[i] <= 1
            /\ promise[i] # Pending => OwnOutcome(i))
    /\ [][\A i \in DOMAIN promise :
            promise[i] # Pending => promise'[i] = promise[i]]_vars
    /\ [][Cardinality({i \in DOMAIN promise : promise'[i] # promise[i]}) <= 1]_vars

\* One call was rejected, another fulfilled, each with its own outcome.
C7_Witness ==
    \E i \in DOMAIN promise : \E j \in DOMAIN promise :
        /\ i < j
        /\ promise[i].state = "rejected"
        /\ promise[j].state = "fulfilled"

\* C8: each submitted call is handed to the transport at most once: a
\* dispatched call is no longer in the queue and is never dispatched again,
\* also after it failed.
C8_AtMostOnce ==
    /\ \A m \in DOMAIN started : \A n \in DOMAIN started :
          m # n => started[m].id # started[n].id
    /\ \A k \in DOMAIN queue : queue[k].id \notin StartedIds

\* A call failed, and the queue went on to drain completely.
C8_Witness ==
    /\ Len(started) = MaxCalls
    /\ promise[1].state = "rejected"
    /\ queue = <<>>
    /\ inflight = {}

\* The pages yielded so far, and the successful responses served so far.
IsPage(r) == r.kind = "page"
Pages == SelectSeq(results, IsPage)
IsOk(r) == r.ok
OkServed == SelectSeq(served, IsOk)

\* The sequence has ended by itself: the generator is done and the consumer
\* never called return().
EndedByItself ==
    /\ session = "paginated"
    /\ genPc = "done"
    /\ \A k \in DOMAIN results : results[k].kind # "returned"

\* The cursor nc is "<date>|<id>" with a date earlier than the instant ce.
DatedBefore(nc, ce) ==
    /\ nc.t = "string"
    /\ Len(nc.s) >= 2
    /\ nc.s[1] \in DateTokens
    /\ nc.s[2] = "|"
    /\ DateInstant(nc.s[1]) < ce.n

\* C9 as stated: with a finite maxPages = M and a server that never returns an
\* empty next cursor, the sequence that has ended has yielded exactly M pages
\* and issued exactly M calls.
C9_ExactlyMaxPages ==
    ( /\ EndedByItself
      /\ maxPages.t = "number"
      /\ \A k \in DOMAIN served : served[k].ok /\ Truthy(served[k].nextCursor) )
    => (Len(Pages) = maxPages.n /\ Len(calls) = maxPages.n)

\* C9 amended: with a finite maxPages = M, if every call succeeds with a
\* non-empty page whose next cursor is non-empty, contains no "undefined" and,
\* when a cutoff is configured, is not dated before the cutoff, the sequence
\* that has ended has yielded exactly M pages and issued exactly M calls.
C9_ExactlyMaxPagesWhenNothingStops ==
    ( /\ EndedByItself
      /\ maxPages.t = "number"
      /\ \A k \in DOMAIN served :
            /\ served[k].ok
            /\ Truthy(served[k].nextCursor)
            /\ Len(served[k].items) > 0
            /\ ~Includes(served[k].nextCursor.s, "undefined")
            /\ (Truthy(cursorEnd) => ~DatedBefore(served[k].nextCursor, cursorEnd)) )
    => (Len(Pages) = maxPages.n /\ Len(calls) = maxPages.n)

\* A session with maxPages = 2 and a cutoff ended after two pages, none of
\* which would have stopped it.
C9_Witness ==
    /\ EndedByItself
    /\ maxPages = Num(2)
    /\ Truthy(cursorEnd)
    /\ Len(Pages) = 2
    /\ Len(calls) = 2
    /\ \A k \in DOMAIN served :
          /\ served[k].ok
          /\ Truthy(served[k].nextCursor)
          /\ Len(served[k].items) > 0
          /\ ~Includes(served[k].nextCursor.s, "undefined")
          /\ ~DatedBefore(served[k].nextCursor, cursorEnd)

\* C10: every successful response has produced a yielded page carrying its
\* items and its next cursor, also when that response ends the pagination; and
\* after a response whose next cursor is dated before the configured cutoff no
\* further call is issued.
C10_YieldBeforeTermination ==
    session = "paginated" =>
        /\ Len(Pages) = Len(OkServed)
        /\ \A k \in DOMAIN Pages :
              /\ Pages[k].items = OkServed[k].items
              /\ Pages[k].cursor =
                    (IF Truthy(OkServed[k].nextCursor)
                     THEN OkServed[k].nextCursor ELSE Str(<<>>))
        /\ \A k \in DOMAIN served :
              (served[k].ok /\ Truthy(cursorEnd)
                  /\ DatedBefore(served[k].nextCursor, cursorEnd))
              => Len(calls) = k

\* The second page came with the next cursor 2026-02-20T00:00:00Z|abc under
\* the cutoff 2026-02-25: it was yielded and the sequence then ended, with
\* neither maxPages nor an empty page to end it.
C10_Witness ==
    /\ EndedByItself
    /\ maxPages = Undefined
    /\ cursorEnd = DateOf(25)
    /\ Len(served) = 2
    /\ served[2].ok
    /\ served[2].nextCursor = Str(<<"2026-02-20T00:00:00Z", "|", "abc">>)
    /\ Len(served[2].items) > 0
    /\ Len(Pages) = 2
    /\ Pages[2].cursor = served[2].nextCursor
    /\ results[Len(results)] = DoneResult

\* The response has no next cursor (absent or empty), or no items.
LastByContent(sv) ==
    sv.ok /\ (sv.nextCursor \in {Undefined, Null, Str(<<>>)} \/ sv.items = <<>>)

\* C11: a response with an empty or absent next cursor, or with zero items,
\* is the last page: its page is yielded and no call follows it.  In
\* particular when the first response has no items and the cursor "", the
\* session makes that one call and yields that one page, with no items and
\* the cursor "", and every later request finds the sequence ended.
C11_EmptyResponseIsLast ==
    session = "paginated" =>
        /\ \A k \in DOMAIN served :
              LastByContent(served[k]) =>
                  /\ Len(calls) = k
                  /\ Len(Pages) = k
                  /\ Pages[k].items = served[k].items
                  /\ genPc \in {"yield", "done"}
        /\ (served # <<>> /\ served[1] = [ok |-> TRUE, items |-> <<>>,
                                          nextCursor |-> Str(<<>>), error |-> "none"]) =>
              /\ Len(Pages) = 1
              /\ Pages[1].items = <<>> /\ Pages[1].cursor = Str(<<>>)
              /\ \A i \in 2..Len(results) : results[i].kind \in {"done", "returned"}

C11_Witness ==
    /\ session = "paginated"
    /\ maxPages = Num(2)
    /\ Len(served) = 1
    /\ served[1].ok /\ served[1].items = <<>> /\ served[1].nextCursor = Str(<<>>)
    /\ Len(calls) = 1
    /\ Len(results) = 2
    /\ results[1].kind = "page" /\ results[2].kind = "done"
    /\ genPc = "done"

\* The cursor is structurally valid: a date token, then the separator.
WellFormed(nc) ==
    /\ nc.t = "string"
    /\ Len(nc.s) >= 2
    /\ nc.s[1] \in DateTokens
    /\ nc.s[2] = "|"

\* The response carries a non-empty next cursor that is structurally invalid.
InvalidNext(sv) ==
    sv.ok /\ sv.nextCursor.t = "string" /\ sv.nextCursor.s # <<>> /\ ~WellFormed(sv.nextCursor)

\* C12, as stated: after a page whose non-empty next cursor is structurally
\* invalid (no separator, or a date token that is no date) no further call is
\* issued.
C12_InvalidCursorEnds ==
    session = "paginated" =>
        \A k \in DOMAIN served : InvalidNext(served[k]) => Len(calls) = k

\* C12, amended: after a page whose non-empty next cursor is structurally
\* invalid and contains the text "undefined", the session ends and no further
\* call is issued.
C12_UndefinedCursorEnds ==
    session = "paginated" =>
        \A k \in DOMAIN served :
            (InvalidNext(served[k]) /\ \E i \in DOMAIN served[k].nextCursor.s :
                                          served[k].nextCursor.s[i] = "undefined") =>
                /\ Len(calls) = k
                /\ Len(Pages) = k
                /\ \A i \in (k + 1)..Len(results) : results[i].kind \in {"done", "returned"}

C12_Witness ==
    /\ session = "paginated"
    /\ maxPages = Undefined
    /\ Len(served) = 1
    /\ served[1].ok /\ served[1].items # <<>>
    /\ served[1].nextCursor = Str(<<"undefined", "|", "abg">>)
    /\ Len(calls) = 1
    /\ Len(results) = 2 /\ results[2].kind = "done"

\* Page k came with a non-empty next cursor whose date token cannot be
\* parsed, and nothing else ends the session after it: the page has items,
\* the cursor holds no "undefined", and maxPages allows a page k + 1.
OnlyDateMissing(k) ==
    /\ InvalidNext(served[k])
    /\ served[k].items # <<>>
    /\ \A i \in DOMAIN served[k].nextCursor.s : served[k].nextCursor.s[i] # "undefined"
    /\ (maxPages = Undefined \/ k < maxPages.n)

\* C13: with a cutoff configured, a next cursor whose date token cannot be
\* parsed raises no error and does not end the session: when the consumer
\* asks for the page after it, the call for that page is made, with that
\* cursor.
C13_MalformedCursorIsSoft ==
    (session = "paginated" /\ cursorEnd # Undefined) =>
        /\ \A k \in DOMAIN served :
              (OnlyDateMissing(k) /\ pageCount >= k) =>
                  /\ Len(calls) >= k + 1
                  /\ \E i \in DOMAIN calls[k + 1] :
                        calls[k + 1][i] = [k |-> "cursor", v |-> served[k].nextCursor]
        /\ \A i \in DOMAIN results :
              results[i].kind = "error" => \E j \in DOMAIN served : ~served[j].ok

C13_Witness ==
    /\ session = "paginated"
    /\ cursorEnd = DateOf(25)
    /\ Len(served) = 2
    /\ served[1].ok /\ served[1].nextCursor = Str(<<"notadate", "|", "abf">>)
    /\ served[2].ok /\ served[2].nextCursor = Str(<<"nopipe">>)
    /\ Len(calls) = 3
    /\ Len(Pages) = 2

\* The requests the consumer has made so far, in the order it made them:
\* those that have settled, then those still queued.
RequestKind(r) == IF r.kind = "returned" THEN "return" ELSE "next"
Requested == [i \in DOMAIN results |-> RequestKind(results[i])] \o reqs

\* The next() requests made before the consumer's first return().
PagesRequested ==
    Cardinality({i \in DOMAIN Requested :
                    Requested[i] = "next" /\ \A j \in 1..i : Requested[j] # "return"})

\* The calls made are at most the pages requested, none before the first
\* request.
CallsWithinRequests ==
    session = "paginated" =>
        /\ Len(calls) <= PagesRequested
        /\ (results = <<>> /\ reqs = <<>>) => calls = <<>>

\* The consumer has stopped iterating: a return() of it has been served.
Stopped == session = "paginated" /\ \E i \in DOMAIN results : results[i].kind = "returned"

\* C14: a session never makes more calls than the consumer has requested
\* pages (next() requests made before its first return()); creating the
\* sequence makes no call; and once the consumer has stopped iterating, no
\* further call is ever made.
C14_PullBased ==
    /\ []CallsWithinRequests
    /\ [][Stopped => calls' = calls]_vars

C14_Witness ==
    /\ session = "paginated"
    /\ maxPages = Undefined
    /\ Len(served) = 1
    /\ served[1].ok /\ served[1].items # <<>>
    /\ served[1].nextCursor = Str(<<"2026-02-27T00:00:00Z", "|", "abe">>)
    /\ Len(results) = 3
    /\ results[1].kind = "page" /\ results[2].kind = "returned" /\ results[3].kind = "done"
    /\ reqs = <<"next">>
    /\ Len(calls) = 1

\* C15: a session has at most one call outstanding: a call is outstanding
\* exactly while the generator awaits it, and when call k + 1 is made, call k
\* has settled and page k has been handed to the consumer, however many
\* pages the consumer has requested ahead.
C15_OneOutstandingCall ==
    session = "paginated" =>
        /\ Len(calls) - Len(served) \in {0, 1}
        /\ Len(calls) - Len(served) = 1 <=> genPc = "awaiting"
        /\ \A k \in 1..(Len(calls) - 1) :
              /\ served[k].ok
              /\ Len(Pages) >= k
              /\ Pages[k].items = served[k].items

C15_Witness ==
    /\ session = "paginated"
    /\ Len(calls) = 2
    /\ Len(served) = 1
    /\ genPc = "awaiting"
    /\ reqs = <<"next", "next", "next">>
    /\ Len(results) = 1 /\ results[1].kind = "page"

\* C16: when the call for page k fails, the consumer has received pages
\* 1..k-1, its k-th request fails with the error the call failed with, the
\* sequence is finished (later requests get no page), and no call follows
\* the failed one.
C16_FailurePropagates ==
    session = "paginated" =>
        \A k \in DOMAIN served :
            ~served[k].ok =>
                /\ Len(served) = k /\ Len(calls) = k
                /\ genPc = "done"
                /\ Len(results) >= k
                /\ \A i \in 1..(k - 1) :
                      results[i].kind = "page" /\ results[i].items = served[i].items
                /\ results[k].kind = "error" /\ results[k].error = served[k].error
                /\ \A i \in (k + 1)..Len(results) : results[i].kind \in {"done", "returned"}

C16_Witness ==
    /\ session = "paginated"
    /\ Len(served) = 2
    /\ served[1].ok /\ ~served[2].ok /\ served[2].error = "error2"
    /\ Len(results) = 4
    /\ results[2].kind = "error" /\ results[3].kind = "done" /\ results[4].kind = "done"

\* C17: the first call of a session carries the cursor of the input it was
\* invoked with (none when that has none); call k + 1 carries the next
\* cursor response k returned, which is the cursor of the page yielded for
\* it; and a page's cursor is "" exactly when its response had no next
\* cursor.
C17_CursorThreading ==
    session = "paginated" =>
        /\ calls # <<>> => Get(calls[1], "cursor") = Get(arg.obj, "cursor")
        /\ \A k \in 1..(Len(calls) - 1) :
              /\ Get(calls[k + 1], "cursor") = served[k].nextCursor
              /\ Get(calls[k + 1], "cursor") = Pages[k].cursor
        /\ \A k \in DOMAIN Pages :
              /\ Pages[k].cursor = Str(<<>>)
                    <=> served[k].nextCursor \in {Undefined, Null, Str(<<>>)}
              /\ Pages[k].cursor # Str(<<>>) => Pages[k].cursor = served[k].nextCursor

C17_Witness ==
    /\ session = "paginated"
    /\ Get(arg.obj, "cursor") = Str(<<"2026-02-27T00:00:00Z", "|", "start">>)
    /\ Len(calls) = 3
    /\ Get(calls[1], "cursor") = Str(<<"2026-02-27T00:00:00Z", "|", "start">>)
    /\ Get(calls[2], "cursor") = Str(<<"2026-02-25T00:00:00Z", "|", "abd">>)
    /\ Get(calls[3], "cursor") = Str(<<"2026-02-20T00:00:00Z", "|", "abc">>)
    /\ Len(served) = 3
    /\ served[3].nextCursor = Undefined
    /\ Pages[3].cursor = Str(<<>>)

\* The operation was invoked with an input whose autoPaginate is exactly true.
AskedToPaginate ==
    arg.given /\ \E i \in DOMAIN arg.obj : arg.obj[i] = [k |-> "autoPaginate", v |-> Bool(TRUE)]

\* C18: an invocation whose input has autoPaginate absent, false or any value
\* other than true makes exactly one call, with the input as it was given
\* (the empty object when no input was given), and gives its caller that
\* call's outcome, not a sequence of pages.
C18_SingleCallPath ==
    (session # "none" /\ ~AskedToPaginate) =>
        /\ session = "single"
        /\ calls = <<IF arg.given THEN arg.obj ELSE <<>>>>
        /\ reqs = <<>>
        /\ Len(served) <= 1 /\ Len(results) = Len(served)
        /\ \A i \in DOMAIN results :
              IF served[i].ok
              THEN /\ results[i].kind = "value"
                   /\ results[i].items = served[i].items
                   /\ results[i].cursor = served[i].nextCursor
              ELSE results[i].kind = "error" /\ results[i].error = served[i].error

C18_Witness ==
    /\ session = "single"
    /\ arg.given
    /\ Get(arg.obj, "autoPaginate") = Str(<<"true">>)
    /\ Get(arg.obj, "maxPages") = Num(2)
    /\ Get(arg.obj, "cursorEnd") = DateOf(25)
    /\ calls = <<arg.obj>>
    /\ Len(results) = 1 /\ results[1].kind = "value" /\ results[1].items # <<>>

\* The pagination-policy fields, and an object without them.
PolicyFields == {"autoPaginate", "maxPages", "cursorEnd"}

RECURSIVE Kept(_)
Kept(o) ==
    IF o = <<>> THEN <<>>
    ELSE IF Head(o).k \in PolicyFields THEN Kept(Tail(o))
    ELSE <<Head(o)>> \o Kept(Tail(o))

\* The object o has every field of fs, with the same value and in the same
\* relative order.
CarriesInOrder(o, fs) ==
    SelectSeq(o, LAMBDA e : \E i \in DOMAIN fs : fs[i] = e) = fs

NoPolicyField(o) == \A i \in DOMAIN o : o[i].k \notin PolicyFields

\* C19, as stated: with autoPaginate exactly true, the input handed to the
\* engine and every request of the session have none of autoPaginate,
\* maxPages, cursorEnd, and have every other field of the original input
\* with its value, in the original order.
C19_PolicyFieldsStripped ==
    session = "paginated" =>
        /\ NoPolicyField(input) /\ CarriesInOrder(input, Kept(arg.obj))
        /\ \A k \in DOMAIN calls :
              NoPolicyField(calls[k]) /\ CarriesInOrder(calls[k], Kept(arg.obj))

\* C19, amended: ... every other field of the original input in the
\* original order, with its value except for the cursor field, whose value
\* in a request is the session's current cursor.
C19_PolicyFieldsStrippedCursorThreaded ==
    session = "paginated" =>
        /\ NoPolicyField(input) /\ input = Kept(arg.obj)
        /\ \A k \in DOMAIN calls :
              /\ NoPolicyField(calls[k])
              /\ [i \in DOMAIN Kept(arg.obj) |-> Kept(arg.obj)[i].k]
                    = [i \in DOMAIN Kept(arg.obj) |-> calls[k][i].k]
              /\ Len(calls[k]) <= Len(Kept(arg.obj)) + 1
              /\ \A i \in DOMAIN Kept(arg.obj) :
                    calls[k][i].k # "cursor" => calls[k][i] = Kept(arg.obj)[i]

C19_Witness ==
    /\ session = "paginated"
    /\ Len(arg.obj) = 6
    /\ arg.obj[1].k = "autoPaginate" /\ arg.obj[3].k = "maxPages" /\ arg.obj[5].k = "cursorEnd"
    /\ input = <<arg.obj[2], arg.obj[4], arg.obj[6]>>
    /\ Len(calls) = 2
    /\ calls[1] = input
    /\ calls[2] # input

\* The cursor is a non-empty string with a separator whose part before the
\* first separator is a date string.
HasInstant(c) ==
    /\ c.t = "string"
    /\ c.s # <<>>
    /\ \E i \in DOMAIN c.s :
          /\ c.s[i] = "|"
          /\ \A j \in 1..(i - 1) : c.s[j] # "|"
          /\ i = 2 /\ c.s[1] \in DateTokens

\* C20: parseCursorDate returns a date exactly when its argument is a
\* non-empty string with a "|" whose part before the first "|" parses to an
\* instant, and the date is that instant; for null, undefined, "", a string
\* without "|" and an unparseable date part it returns no date.
C20_CodecParse ==
    parseResult # NotCalled =>
        IF HasInstant(parseArg)
        THEN parseResult = DateOf(DateInstant(parseArg.s[1]))
        ELSE parseResult = Null

C20_Witness ==
    /\ parseArg = Str(<<"2026-02-25T00:00:00Z", "|", "|">>)
    /\ parseResult = DateOf(25)

\* The method a fetch call is made with, in upper case.
EffectiveMethod(req) ==
    LET m == IF req.init.given /\ req.init.method # "none" THEN req.init.method
             ELSE IF req.input.kind = "Request" THEN req.input.method
             ELSE "GET"
    IN IF m \in {"get", "GET"} THEN "GET" ELSE "POST"

\* The query parameters of a URL as names and values, and the value of its
\* first input parameter ("null" without one).
Decoded(query) == [i \in DOMAIN query |-> [k |-> query[i].k, v |-> DecodeParam(query[i].raw)]]

OtherParams(query) == SelectSeq(Decoded(query), LAMBDA e : e.k # "input")

Payload(url) ==
    LET is == {i \in DOMAIN url.query : url.query[i].k = "input"}
    IN IF is = {} THEN "null"
       ELSE DecodeParam(url.query[CHOOSE i \in is : \A j \in is : i <= j].raw)

\* The call out is the POST form of the GET call req.
RewrittenFrom(out, req) ==
    /\ out.init.given /\ out.init.method = "POST"
    /\ out.init.body = Payload(req.input.url)
    /\ out.input.url.abs /\ out.input.url.path = req.input.url.path
    /\ Decoded(out.input.url.query) = OtherParams(req.input.url.query)

\* C21, as stated: a GET call whose URL has an input parameter goes to the
\* wrapped transport as a POST to the URL without that parameter, the other
\* parameters kept, with the parameter's value as body; a GET call without
\* the parameter goes on unchanged.  (URLs that parse.)
C21_GetBecomesPost ==
    \A i \in DOMAIN wireIn :
        (EffectiveMethod(wireIn[i]) = "GET" /\ wireIn[i].input.url.abs) =>
            IF Payload(wireIn[i].input.url) # "null"
            THEN RewrittenFrom(postOut[i], wireIn[i])
            ELSE postOut[i] = wireIn[i]

\* C21, amended: ... whose URL has an input parameter with a non-empty value
\* ...; a GET call without the parameter, or with an empty one, goes on
\* unchanged.
C21_GetWithPayloadBecomesPost ==
    \A i \in DOMAIN wireIn :
        (EffectiveMethod(wireIn[i]) = "GET" /\ wireIn[i].input.url.abs) =>
            IF Payload(wireIn[i].input.url) \notin {"null", ""}
            THEN RewrittenFrom(postOut[i], wireIn[i])
            ELSE postOut[i] = wireIn[i]

C21_Witness ==
    /\ Len(wireIn) = 1
    /\ wireIn[1].input.kind = "Request"
    /\ wireIn[1].init.method = "get"
    /\ wireIn[1].input.url.query = <<Param("input", "%7Ba%7D"), Param("x", "a%20b")>>
    /\ postOut[1].init.method = "POST"
    /\ postOut[1].init.body = "{a}"
    /\ postOut[1].input.url.query = <<Param("x", "a+b")>>

\* C22: a call whose method is not GET, and a GET call whose URL does not
\* parse, reach the wrapped transport with the caller's own input and
\* options; the rewrite raises nothing for them: the wrapped transport is
\* called.
C22_RewriteFailsOpen ==
    /\ Len(postOut) = Len(wireIn)
    /\ \A i \in DOMAIN wireIn :
          (EffectiveMethod(wireIn[i]) # "GET" \/ ~wireIn[i].input.url.abs) =>
              postOut[i] = wireIn[i]

C22_Witness ==
    /\ Len(wireIn) = 1
    /\ EffectiveMethod(wireIn[1]) = "GET"
    /\ ~wireIn[1].input.url.abs
    /\ Payload(wireIn[1].input.url) = "{a}"
    /\ postOut = wireIn
    /\ wireResult.state = "fulfilled"

\* C23: whether or not an observer is configured, and whether it returns or
\* throws, each call reaching the batch observer's wrapper is made on the
\* wrapped transport exactly once, with the same input and options, and its
\* caller gets what the wrapped transport gave: its promise, or the error
\* it threw.
C23_ObserverIsTransparent ==
    /\ Len(BaseCalls) = Len(postOut)
    /\ \A i \in DOMAIN postOut :
          /\ BaseCalls[i].req = postOut[i]
          /\ wireResult = BaseCalls[i].outcome

C23_Witness ==
    /\ options.logBatches = "function"
    /\ Len(postOut) = 1
    /\ Len(BatchEvents) = 1
    /\ BatchEvents[1].outcome.state = "thrown"
    /\ Len(BaseCalls) = 1
    /\ BaseCalls[1].req = postOut[1]
    /\ wireResult = [state |-> "rejected", value |-> "error1"]

\* The operation names in the last segment of a URL's path.
OperationNames(url) ==
    {i \in DOMAIN url.path :
        /\ url.path[i] \notin {"/", ","}
        /\ \A j \in i..Len(url.path) : url.path[j] # "/"}

\* The request is a batch: batch=1 in the query, or several operation names.
BatchRequest(url) ==
    \/ \E i \in DOMAIN url.query : url.query[i] = Param("batch", "1")
    \/ Cardinality(OperationNames(url)) > 1

\* The wire request went through an observer that was given exactly one
\* event for it, before the base fetch was called, or none at all.
OneEventBefore(i) ==
    /\ Len(BatchEvents) = 1
    /\ wireLog[1].kind = "event" /\ wireLog[2].kind = "base"
    /\ wireLog[1].req = postOut[i]
    /\ wireLog[1].info.batchSize = Cardinality(OperationNames(postOut[i].input.url))

\* C24, as stated: (with an observer configured) an event is emitted for a
\* wire request exactly when it is a batch, once, before the request is
\* forwarded, with batchSize the number of operation names in the path.
C24_EventIffBatch ==
    options.logBatches \in {"true", "function"} =>
        \A i \in DOMAIN postOut :
            IF BatchRequest(postOut[i].input.url)
            THEN OneEventBefore(i)
            ELSE BatchEvents = <<>>

\* C24, amended: ... exactly when it is a batch whose URL parses as an
\* absolute URL ...; a batch request whose URL does not parse emits no event.
C24_EventIffParsedBatch ==
    options.logBatches \in {"true", "function"} =>
        \A i \in DOMAIN postOut :
            IF postOut[i].input.url.abs /\ BatchRequest(postOut[i].input.url)
            THEN OneEventBefore(i)
            ELSE BatchEvents = <<>>

C24_Witness ==
    /\ options.logBatches = "true"
    /\ Len(postOut) = 1
    /\ postOut[1].input.url.path = <<"/", "trpc", "/", "a", ",", "b">>
    /\ postOut[1].input.url.query = <<>>
    /\ Len(wireLog) = 2
    /\ wireLog[1].kind = "event"
    /\ wireLog[1].info.batchSize = 2
    /\ wireLog[1].info.paths = <<<<"a">>, <<"b">>>>
    /\ wireLog[2].kind = "base"

\* C25: the rate of a client's queue is the rateLimit option when that is
\* given; otherwise it is 200 when the apiKey option is given and 100 when
\* it is not.
C25_AppliedRate ==
    options # NoClient =>
        appliedRateLimit =
            IF options.rateLimit.t = "number" THEN options.rateLimit.n
            ELSE IF options.apiKey.t = "string" THEN 200
            ELSE 100

C25_Witness ==
    /\ options # NoClient
    /\ options.rateLimit = Undefined
    /\ options.apiKey = Str(<<"key1">>)
    /\ appliedRateLimit = 200

\* The pending drain steps of the queue: rate-limit waits and scheduled next
\* steps (timers), and calls whose promise chain has not run to its end.
DrainSteps == Len(timers) + Cardinality(inflight)

\* A step is a submission.
Submitting == Len(submitted') = Len(submitted) + 1

\* C26: the queue never has more than one pending drain step (rate-limit
\* wait, call in flight, or scheduled next step), and a submission made
\* while running is true only appends to the queue.
C26_SingleDrainLoop ==
    /\ [](DrainSteps <= 1)
    /\ [][(Submitting /\ running) =>
             /\ Len(queue') = Len(queue) + 1
             /\ SubSeq(queue', 1, Len(queue)) = queue
             /\ UNCHANGED <<running, lastTime, timers, inflight, started>>]_vars

C26_Witness ==
    /\ running
    /\ Len(timers) = 1 /\ timers[1].kind = "next"
    /\ inflight = {}
    /\ Len(queue) = 2
    /\ Len(started) = 1

\* C27: no call is stranded: while the queue is non-empty, running is true
\* and a drain step is pending; and while running is false the queue is
\* empty and no call is in flight.
C27_NoCallStranded ==
    /\ queue # <<>> => (running /\ DrainSteps >= 1)
    /\ ~running => (queue = <<>> /\ inflight = {})

\* C28: when the transport throws synchronously, the promise of the call it
\* was invoked for is rejected, and the queue goes on draining: calls still
\* queued have a drain step pending.
C28_SyncThrowIsIsolated ==
    \A i \in crashed :
        /\ promise[i].state = "rejected"
        /\ queue # <<>> => DrainSteps >= 1

\* A step dispatches a call.
Dispatching == Len(started') = Len(started) + 1

\* C29: lastTime changes only in a step that pops and dispatches a call;
\* such a step sets it to the clock's reading, the time the transport is
\* invoked at; and it never decreases.
C29_LastTimeAtDispatchOnly ==
    [][/\ lastTime' # lastTime => Dispatching
       /\ Dispatching => (lastTime' = now /\ started'[Len(started')].at = lastTime')
       /\ lastTime' >= lastTime]_vars

C29_Witness ==
    /\ Len(started) = 2
    /\ lastTime = started[2].at
    /\ started[2].at > started[1].at
    /\ Len(submitted) = 3
    /\ \E i \in DOMAIN timers : timers[i].kind = "wait"

\* A drain step starts: runNext is called by a submission or by the timer of
\* the finally callback.
DrainStarts ==
    \/ Submitting /\ ~running
    \/ /\ \E i \in DOMAIN timers : timers[i].kind = "next"
       /\ \A i \in DOMAIN timers' : timers'[i].kind # "next"

\* The rate-limit wait ends: its timer fires.
WaitEnds ==
    /\ \E i \in DOMAIN timers : timers[i].kind = "wait"
    /\ \A i \in DOMAIN timers' : timers'[i].kind # "wait"

\* C30: a drain step starting at time t with a call queued dispatches it in
\* that step when minSpacing has elapsed since lastTime, and otherwise sets
\* the timer that dispatches it for lastTime + minSpacing, a wait of at most
\* minSpacing; the step of that timer dispatches.  The first call of a
\* fresh queue is dispatched by its submission.
C30_NoExcessDelay ==
    [][/\ DrainStarts =>
             IF now >= lastTime + delayMs(rateLimit)
             THEN Dispatching /\ started'[Len(started')].at = now
             ELSE /\ ~Dispatching
                  /\ \E i \in DOMAIN timers' :
                        /\ timers'[i] = [kind |-> "wait", due |-> lastTime + delayMs(rateLimit)]
                        /\ timers'[i].due - now <= delayMs(rateLimit)
       /\ WaitEnds => Dispatching
       /\ (Submitting /\ submitted = <<>>) => (Dispatching /\ started'[1].at = now)]_vars

C30_Witness ==
    /\ Len(started) = 2
    /\ started[2].at = started[1].at + delayMs(rateLimit)
    /\ rateLimit = 20000
    /\ submitted[2].waiting = FALSE
    /\ Len(timers) = 0

\* C31: with maxPages given, a session never has made more calls, nor
\* yielded more pages, than maxPages; with maxPages = 0 it makes no call and
\* every request of the consumer finds the sequence ended.
C31_AtMostMaxPages ==
    (session = "paginated" /\ maxPages.t = "number") =>
        /\ Len(calls) <= maxPages.n
        /\ Len(Pages) <= maxPages.n
        /\ maxPages.n = 0 =>
              \A i \in DOMAIN results : results[i].kind \in {"done", "returned"}

C31_Witness ==
    /\ session = "paginated"
    /\ maxPages = Num(0)
    /\ calls = <<>>
    /\ Len(results) = 2
    /\ results[1].kind = "done" /\ results[2].kind = "done"

\* Response k has a well-formed next cursor, and nothing but the cutoff can
\* end the session after it: the page has items, the cursor holds no
\* "undefined", and maxPages allows a page k + 1.
OnlyCutoffDecides(k) ==
    /\ served[k].ok /\ WellFormed(served[k].nextCursor)
    /\ served[k].items # <<>>
    /\ \A i \in DOMAIN served[k].nextCursor.s : served[k].nextCursor.s[i] # "undefined"
    /\ (maxPages = Undefined \/ k < maxPages.n)

\* C32: with a cutoff configured, a next cursor dated strictly before the
\* cutoff ends the session after its page; a next cursor dated at the
\* cutoff or later does not: when the consumer asks for the next page, the
\* call for it is made, with that cursor.
C32_CutoffIsStrict ==
    (session = "paginated" /\ cursorEnd.t = "date") =>
        \A k \in DOMAIN served :
            (served[k].ok /\ WellFormed(served[k].nextCursor)) =>
                IF DateInstant(served[k].nextCursor.s[1]) < cursorEnd.n
                THEN Len(calls) = k /\ Len(Pages) = k
                ELSE (OnlyCutoffDecides(k) /\ pageCount >= k) =>
                        /\ Len(calls) >= k + 1
                        /\ Get(calls[k + 1], "cursor") = served[k].nextCursor

C32_Witness ==
    /\ session = "paginated"
    /\ cursorEnd = DateOf(25)
    /\ Len(served) = 2
    /\ served[1].nextCursor = Str(<<"2026-02-25T00:00:00Z", "|", "abd">>)
    /\ served[2].nextCursor = Str(<<"2026-02-20T00:00:00Z", "|", "abc">>)
    /\ served[2].items # <<>>
    /\ Len(calls) = 2
    /\ Get(calls[2], "cursor") = Str(<<"2026-02-25T00:00:00Z", "|", "abd">>)
    /\ genPc = "done"
    /\ Len(results) = 3 /\ results[3].kind = "done"

\* An object without its cursor field.
NoCursor(o) == SelectSeq(o, LAMBDA e : e.k # "cursor")

\* C33: every request of a session has the fields of the cleaned input,
\* with their values and in their order, apart from cursor; and the cleaned
\* input, like the object the operation was invoked with, stays as it is
\* for the whole session.
C33_OnlyCursorChanges ==
    /\ [](session = "paginated" =>
             \A k \in DOMAIN calls : NoCursor(calls[k]) = NoCursor(input))
    /\ [][session = "paginated" => (input' = input /\ arg' = arg)]_vars

C33_Witness ==
    /\ session = "paginated"
    /\ Len(input) = 2
    /\ input[1].k = "type" /\ input[2].k = "limit"
    /\ Len(calls) = 3
    /\ calls[1] = input
    /\ Len(calls[2]) = 3 /\ Len(calls[3]) = 3
    /\ Get(calls[2], "cursor") # Get(calls[3], "cursor")

\* The GET call req is one the rewrite turns into a POST.
Rewritten(req) ==
    /\ EffectiveMethod(req) = "GET"
    /\ req.input.url.abs
    /\ Payload(req.input.url) \notin {"null", ""}

\* The headers a call supplies: those of its options, and those of the
\* Request itself that the options do not give anew.
OptionHeaders(req) ==
    IF req.init.given /\ req.init.headers.given
    THEN {[k |-> LowerName(req.init.headers.list[i].k), v |-> req.init.headers.list[i].v] :
             i \in DOMAIN req.init.headers.list}
    ELSE {}

SuppliedHeaders(req) ==
    OptionHeaders(req) \cup
    {e \in (IF req.input.kind = "Request" THEN req.input.headers ELSE {}) :
        \A o \in OptionHeaders(req) : o.k # e.k}

\* C34: the headers of a rewritten request are the supplied headers, and
\* when none of them is a content-type, content-type: application/json
\* besides.
C34_ContentTypeDefault ==
    \A i \in DOMAIN wireIn :
        Rewritten(wireIn[i]) =>
            postOut[i].init.headers.set =
                IF \E e \in SuppliedHeaders(wireIn[i]) : e.k = "content-type"
                THEN SuppliedHeaders(wireIn[i])
                ELSE SuppliedHeaders(wireIn[i])
                        \cup {[k |-> "content-type", v |-> "application/json"]}

C34_Witness ==
    /\ Len(wireIn) = 1
    /\ Rewritten(wireIn[1])
    /\ wireIn[1].input.headers # {}
    /\ wireIn[1].init.headers.given
    /\ wireIn[1].init.headers.list[1].k = "X-Api-Key"
    /\ postOut[1].init.headers.set =
          {[k |-> "content-type", v |-> "text/plain"], [k |-> "accept", v |-> "any"],
           [k |-> "x-api-key", v |-> "key1"]}

\* The call that differs from a call in the length of its payload only: the
\* short payload for the long one and the long one for the short, in the
\* input parameters of the URL and in the body.
OtherLength(call) ==
    [call EXCEPT
        !.input.url.query =
            [i \in DOMAIN @ |->
                IF @[i].k # "input" THEN @[i]
                ELSE IF @[i].raw = "%7Ba%7D" THEN Param("input", "%7Baaaa%7D")
                ELSE IF @[i].raw = "%7Baaaa%7D" THEN Param("input", "%7Ba%7D")
                ELSE @[i]],
        !.init.body = IF @ = "{a}" THEN "{aaaa}" ELSE IF @ = "{aaaa}" THEN "{a}" ELSE @]

\* C35: a GET call with a non-empty input parameter is rewritten whatever the
\* length of the payload, and the call of the other payload length is treated
\* the same way: what goes on for it differs in the payload's length only.
C35_LengthIndependent ==
    \A i \in DOMAIN wireIn :
        /\ Rewritten(wireIn[i]) =>
              (postOut[i].init.method = "POST"
                 /\ postOut[i].init.body = Payload(wireIn[i].input.url))
        /\ postQueryFetch(OtherLength(wireIn[i])) = OtherLength(postOut[i])

C35_Witness ==
    /\ Len(wireIn) = 1
    /\ EffectiveMethod(wireIn[1]) = "GET"
    /\ wireIn[1].input.url.query = <<Param("input", "%7Ba%7D")>>
    /\ postOut[1].init.method = "POST"
    /\ postOut[1].init.body = "{a}"
    /\ postQueryFetch(OtherLength(wireIn[1])).init.body = "{aaaa}"

\* The dispatch an entry of the wire log belongs to: the entries of a dispatch
\* end with its base call.
CallOf(j) == Cardinality({i \in 1..(j - 1) : wireLog[i].kind = "base"}) + 1

\* The wrappers are called in the order queue, rewrite, observer, base fetch:
\* the k-th dispatch makes the k-th base call, on the rewritten request, and
\* an event shows the rewritten request (of a rewritten batch: method POST,
\* a URL without input, the payload as body).
ComposedInOrder ==
    /\ Len(BaseCalls) = Len(started)
    /\ \A k \in DOMAIN BaseCalls :
          /\ BaseCalls[k].req = postQueryFetch(started[k].args)
          /\ BaseCalls[k].at = started[k].at
    /\ \A j \in DOMAIN wireLog :
          wireLog[j].kind = "event" =>
              /\ j < Len(wireLog)
              /\ wireLog[j + 1].kind = "base"
              /\ wireLog[j + 1].req = wireLog[j].req
              /\ LET orig == started[CallOf(j)].args
                 IN Rewritten(orig) =>
                       /\ wireLog[j].info.method = "POST"
                       /\ wireLog[j].info.body = Payload(orig.input.url)
                       /\ \A q \in DOMAIN wireLog[j].info.url.query :
                             wireLog[j].info.url.query[q].k # "input"

\* Nothing is left to run: no timer is pending and no call is in flight.
Quiet == timers = <<>> /\ inflight = {}

\* C36: the wrappers compose as queue, rewrite, observer, base fetch, the
\* observer seeing the request as rewritten; and every call admitted to the
\* queue gets its one base call: when nothing is left to run, there are as
\* many base calls as admitted calls.
C36_OneBaseCallPerAdmittedCall ==
    /\ ComposedInOrder
    /\ Quiet => Len(BaseCalls) = Len(submitted)

\* The calls dispatched so far for which loggedFetch emits an event.
EmittingStarted ==
    SelectSeq(started, LAMBDA c : Emits(options.logBatches, postQueryFetch(c.args)))

\* C37: the events are those of the dispatched batch calls, in dispatch
\* order, which is submission order, each at the time of its dispatch; two
\* consecutive events are at least delayMs apart; an event is emitted only
\* in the step that dispatches its call, never in a step that only enqueues
\* it.
C37_EventsAtDispatch ==
    /\ [](LET events == BatchEvents
              emitting == EmittingStarted
          IN /\ Len(events) = Len(emitting)
             /\ \A k \in DOMAIN events :
                   /\ events[k].req = postQueryFetch(emitting[k].args)
                   /\ events[k].at = emitting[k].at
             /\ \A k \in 1..(Len(events) - 1) :
                   /\ events[k + 1].at - events[k].at >= delayMs(rateLimit)
                   /\ emitting[k].id < emitting[k + 1].id)
    /\ [][wireLog' # wireLog =>
              LET events == BatchEvents'
              IN /\ Dispatching
                 /\ Len(events) <= Len(BatchEvents) + 1
                 /\ \A k \in (Len(BatchEvents) + 1)..Len(events) : events[k].at = now
                 /\ lastTime' = now
                 /\ now - lastTime >= delayMs(rateLimit)]_vars

C37_Witness ==
    /\ Len(submitted) = 2
    /\ Len(BatchEvents) = 2
    /\ BatchEvents[1].at = Epoch
    /\ BatchEvents[2].at = BatchEvents[1].at + delayMs(rateLimit)
    /\ BatchEvents[1].info.method = "POST"
    /\ BatchEvents[1].req # BatchEvents[2].req

\* The call carries an x-api-key header, among the headers of a Request, of
\* its options, or of the Headers object the rewrite makes.
CarriesKey(req) ==
    \/ \E e \in req.input.headers : e.k = "x-api-key"
    \/ \E e \in req.init.headers.set : e.k = "x-api-key"
    \/ \E i \in DOMAIN req.init.headers.list :
          LowerName(req.init.headers.list[i].k) = "x-api-key"

\* C38: a client made without a rateLimit option is limited to 200 calls a
\* minute exactly when the calls it makes on the base fetch carry the
\* x-api-key header, and to 100 calls a minute when they carry none.
C38_RateFollowsKeyHeader ==
    options.rateLimit = Undefined =>
        \A k \in DOMAIN BaseCalls :
            /\ rateLimit = 200 <=> CarriesKey(BaseCalls[k].req)
            /\ ~CarriesKey(BaseCalls[k].req) => rateLimit = 100

\* The cursor holds the text "undefined" somewhere.
HoldsUndefined(c) == c.t = "string" /\ \E i \in DOMAIN c.s : c.s[i] = "undefined"

\* C39: the page whose next cursor holds "undefined", in its date token or in
\* its id, is yielded and is the last: no call follows it, whatever maxPages
\* and cursorEnd are, and no call after the first carries a cursor holding
\* "undefined".
C39_UndefinedAnywhereEnds ==
    session = "paginated" =>
        /\ \A k \in DOMAIN served :
              (served[k].ok /\ HoldsUndefined(served[k].nextCursor)) =>
                  /\ Len(calls) = k
                  /\ Len(Pages) = k
                  /\ Pages[k].cursor = served[k].nextCursor
        /\ \A j \in 2..Len(calls) : ~HoldsUndefined(Get(calls[j], "cursor"))

C39_Witness ==
    /\ session = "paginated"
    /\ maxPages = Undefined
    /\ cursorEnd = DateOf(25)
    /\ Len(served) = 2
    /\ served[2].ok /\ served[2].items # <<>>
    /\ served[2].nextCursor = Str(<<"2026-02-27T00:00:00Z", "|", "undefined">>)
    /\ Len(calls) = 2
    /\ Len(Pages) = 2
    /\ genPc = "done"
    /\ results[Len(results)].kind = "done"
====
